---- MODULE Spec2Model ----
(***************************************************************************)
(* Model of pycwl.CloudWatchLogHandler (src/pycwl/__init__.py): producer   *)
(* threads calling emit(), one batch_sender thread per started worker, a   *)
(* thread calling flush(), and the remote put_log_events service as the    *)
(* environment.                                                            *)
(*                                                                         *)
(* Granularity.  A step is one access to shared state (the two dicts, a    *)
(* Queue's put/get/task_done/join, a remote call) together with the        *)
(* thread-local code around it; CPython may switch threads between any two *)
(* such accesses.  Time is abstract: expired[w] says that time.time() has  *)
(* reached worker w's cur_batch_deadline.                                  *)
(***************************************************************************)
EXTENDS Integers, Sequences, FiniteSets, TLC

\* ------------------------------------------------------------------ bounds
MaxEmits == 2       \* emit() calls in a run
MaxFlush == 2       \* flush() calls in a run
\* requests whose first call fails (a retry may fail freely), create_log_stream
\* calls that fail, and batch deadlines that elapse in a run
MaxUpsets == 1

\* --------------------------------------------------------------- constants
EventOverhead == 26
MillisPerSecond == 1000

Streams == {"A", "B"}
Producers == {"p1", "p2"}
\* A Queue object, and the worker thread started by the same emit() call, are
\* named after the stream and the producer thread that created them.
QueueIds == Streams \X Producers
Workers == Streams \X Producers

\* Python values that are not strings
None == [py |-> "None"]
NoEntry == [py |-> "KeyError"]      \* the key is not in the dict
END == [END |-> 1]
Unset == [py |-> "unset"]           \* kwargs has no "sequenceToken" key

\* a Python str value, and a reference to the Queue object named id
Str(chars) == [str |-> chars]
Ref(id) == [queue |-> id]

\* The callers: thread p1 logs to the loggers A and B, thread p2 to logger A
\* (message.name); each thread logs one text (message.msg), a sequence of
\* characters.
LoggersOf(p) == IF p = "p1" THEN Streams ELSE {"A"}
ShortText == <<"a">>
LongText == [i \in 1..29 |-> "b"]
TextOf(p) == IF p = "p1" THEN ShortText ELSE LongText

\* constructor arguments (max_batch_size, max_batch_count, use_queues)
\* With 54 bytes two short messages fill a batch exactly and a long message
\* (29 + 26 bytes) is larger than any batch; with 100 bytes and one message a
\* batch is closed by the count alone.
Configs ==
    { [max_batch_size |-> 54, max_batch_count |-> 3, use_queues |-> TRUE],
      [max_batch_size |-> 100, max_batch_count |-> 1, use_queues |-> TRUE],
      [max_batch_size |-> 54, max_batch_count |-> 3, use_queues |-> FALSE] }

VARIABLES
    \* constructor arguments
    use_queues, max_batch_size, max_batch_count,
    \* self.sequence_tokens, self.queues (with the insertion order of its keys)
    sequence_tokens, queues, queue_keys,
    \* Queue objects: items not yet taken, unfinished_tasks, created or not
    qitems, unfinished, made,
    \* batch_sender threads
    wpc, wq, msg, cur_batch, cur_batch_size, cur_batch_msg_count, expired,
    \* emit() callers
    epc, stream_name, emsg,
    \* _submit_batch's kwargs, per calling thread
    kwargs,
    \* the flush() caller
    fpc, fidx, fused, fq,
    \* history
    emitted, batches, calls, overlap, fsnap,
    nemit, nflush, nfault, nexpire

confVars == <<use_queues, max_batch_size, max_batch_count>>
dictVars == <<sequence_tokens, queues, queue_keys>>
queueVars == <<qitems, unfinished, made>>
workerVars == <<wpc, wq, msg, cur_batch, cur_batch_size, cur_batch_msg_count, expired>>
emitVars == <<epc, stream_name, emsg>>
flushVars == <<fpc, fidx, fused, fq>>
histVars == <<emitted, batches, calls, overlap, fsnap>>
countVars == <<nemit, nflush, nfault, nexpire>>
vars == <<confVars, dictVars, queueVars, workerVars, emitVars, kwargs,
          flushVars, histVars, countVars>>

\* the thread that runs emit() for producer p, named like a worker thread
Caller(p) == <<"emit", p>>
Threads == Workers \cup {Caller(p) : p \in Producers}

\* ------------------------------------------------------------ pure helpers
RECURSIVE SumSizes(_)

\* def size(msg): return len(msg["message"]) + 26
size(m) == Len(m.message) + EventOverhead

\* sum(size(msg) for msg in cur_batch)
SumSizes(batch) ==
    IF batch = <<>> THEN 0 ELSE size(Head(batch)) + SumSizes(Tail(batch))

\* dict(timestamp=int(message.created * 1000), message=message.msg)
MakeMsg(created, text) ==
    [timestamp |-> created * MillisPerSecond, message |-> text]

\* position of the last " " in a string, 0 when it has none
LastSpace(str) ==
    LET at == {i \in 1..Len(str) : str[i] = " "}
    IN  IF at = {} THEN 0 ELSE CHOOSE i \in at : \A j \in at : j <= i

\* str.rsplit(" ", 1)[-1]
RSplitLast(str) == SubSeq(str, LastSpace(str) + 1, Len(str))

\* ------------------------------------------------- the remote log service
\* The service is the environment: a put_log_events call returns a response
\* or raises a ClientError.  Every accepted call returns a token not returned
\* before on that stream.
Digits == <<"0", "1", "2", "3", "4", "5", "6", "7", "8", "9">>

RECURSIVE Decimal(_)
Decimal(n) ==
    IF n < 10 THEN <<Digits[n + 1]>>
    ELSE Decimal(n \div 10) \o <<Digits[(n % 10) + 1]>>

Answered(s) == {i \in DOMAIN calls[s] : calls[s][i].result \in {"ok", "rejected"}}

\* response["nextSequenceToken"]
FreshToken(s) == Str(Decimal(Cardinality(Answered(s)) + 1))

StaleCodes == {"DataAlreadyAcceptedException", "InvalidSequenceTokenException"}

\* e.response["Error"] of the ClientErrors the service raises
ClientErrors ==
    { [Code |-> "InvalidSequenceTokenException",
       Message |-> <<"n", "o", "t", " ", "7", " ", "b", "u", "t", " ", "4", "9">>],
      [Code |-> "DataAlreadyAcceptedException",
       Message |-> <<"s", "e", "e", "n", ":", "5">>],
      [Code |-> "ServiceUnavailableException",
       Message |-> <<"d", "o", "w", "n">>] }

\* the responses put_log_events returns on stream s
Responses(s) ==
    { [nextSequenceToken |-> FreshToken(s)],
      [nextSequenceToken |-> FreshToken(s), rejectedLogEventsInfo |-> TRUE] }

Rejected(response) == "rejectedLogEventsInfo" \in DOMAIN response

\* ------------------------------------------------------------------- Init
\* The state after __init__: both dicts empty, no queue, no thread.
Init ==
    /\ \E c \in Configs :
          /\ use_queues = c.use_queues
          /\ max_batch_size = c.max_batch_size
          /\ max_batch_count = c.max_batch_count
    /\ sequence_tokens = [s \in Streams |-> NoEntry]
    /\ queues = [s \in Streams |-> NoEntry]
    /\ queue_keys = <<>>
    /\ qitems = [q \in QueueIds |-> <<>>]
    /\ unfinished = [q \in QueueIds |-> 0]
    /\ made = {}
    /\ wpc = [w \in Workers |-> "unstarted"]
    /\ wq = [w \in Workers |-> NoEntry]
    /\ msg = [w \in Workers |-> None]
    /\ cur_batch = [w \in Workers |-> <<>>]
    /\ cur_batch_size = [w \in Workers |-> 0]
    /\ cur_batch_msg_count = [w \in Workers |-> 0]
    /\ expired = [w \in Workers |-> FALSE]
    /\ epc = [p \in Producers |-> "idle"]
    /\ stream_name = [p \in Producers |-> NoEntry]
    /\ emsg = [p \in Producers |-> None]
    /\ kwargs = [t \in Threads |-> None]
    /\ fpc = "idle"
    /\ fidx = 0
    /\ fused = 0
    /\ fq = NoEntry
    /\ emitted = [s \in Streams |-> <<>>]
    /\ batches = [s \in Streams |-> <<>>]
    /\ calls = [s \in Streams |-> <<>>]
    /\ overlap = [s \in Streams |-> FALSE]
    /\ fsnap = [s \in Streams |-> <<>>]
    /\ nemit = 0
    /\ nflush = 0
    /\ nfault = 0
    /\ nexpire = 0

\* ---------------------------------------------------------- _submit_batch
\* the invocation of _submit_batch that thread t has open on stream s
CurInv(t, s) ==
    LET mine == {k \in DOMAIN batches[s] : batches[s][k].thread = t}
    IN  CHOOSE k \in mine : \A j \in mine : j <= k

\* lines 62-65: the request, with the stored token unless it is None
BuildKwargs(batch, s) ==
    [logStreamName |-> s, logEvents |-> batch,
     sequenceToken |-> IF sequence_tokens[s] # None THEN sequence_tokens[s] ELSE Unset]

CallRecord(t, s, attempt, result, detail) ==
    [inv |-> CurInv(t, s), attempt |-> attempt,
     sequenceToken |-> kwargs[t].sequenceToken, result |-> result, detail |-> detail]

\* a _submit_batch that retries with the whole error message as the token
RetryTokenWholeMessage(error) == Str(error.Message)

\* line 72: the retry's token
RetryToken(error) == Str(RSplitLast(error.Message))

\* Entering _submit_batch(batch, s) as thread t; next is the thread's program
\* counter variable after the step.  sequence_tokens[s] raises KeyError when
\* the stream has no entry.
EnterSubmit(t, s, batch, next) ==
    /\ batches' = [batches EXCEPT ![s] = Append(@, [logEvents |-> batch, thread |-> t])]
    /\ IF sequence_tokens[s] = NoEntry
       THEN next = "crashed" /\ UNCHANGED kwargs
       ELSE next = "call1" /\ kwargs' = [kwargs EXCEPT ![t] = BuildKwargs(batch, s)]

\* ------------------------------------------------------------------ emit
\* emit() returns or raises: the call's locals are gone
EmitEnds(p) ==
    /\ epc' = [epc EXCEPT ![p] = "idle"]
    /\ stream_name' = [stream_name EXCEPT ![p] = NoEntry]
    /\ emsg' = [emsg EXCEPT ![p] = None]

\* emit() goes on at the place named pc, with its locals
EmitAt(p, pc, s, m) ==
    /\ epc' = [epc EXCEPT ![p] = pc]
    /\ stream_name' = [stream_name EXCEPT ![p] = s]
    /\ emsg' = [emsg EXCEPT ![p] = m]

\* line 105: self.queues[stream_name].put(msg), and emit returns
Put(p, s, m) ==
    LET q == queues[s].queue IN
    /\ qitems' = [qitems EXCEPT ![q] = Append(@, m)]
    /\ unfinished' = [unfinished EXCEPT ![q] = @ + 1]
    /\ emitted' = [emitted EXCEPT ![s] = Append(@, m)]
    /\ EmitEnds(p)

\* lines 94-107: with queues, a stream that has a queue gets the message put
\* on it, and one that has none gets a queue first (line 97 comes next);
\* without queues the thread enters _submit_batch([msg], stream_name) itself
Route(p, s, m) ==
    IF use_queues
    THEN /\ IF queues[s] = NoEntry
            THEN EmitAt(p, "newq", s, m) /\ UNCHANGED <<qitems, unfinished, emitted>>
            ELSE Put(p, s, m)
         /\ UNCHANGED <<kwargs, batches>>
    ELSE /\ emitted' = [emitted EXCEPT ![s] = Append(@, m)]
         /\ \E next \in {"call1", "crashed"} :
               /\ EnterSubmit(Caller(p), s, <<m>>, next)
               /\ IF next = "crashed" THEN EmitEnds(p) ELSE EmitAt(p, next, s, m)
         /\ UNCHANGED <<qitems, unfinished>>

\* lines 88-89: emit(message) called by thread p with message.name = s,
\* message.msg = TextOf(p) and message.created the time of the call.  A stream
\* without a token entry is created first (line 90 comes next); for a stream
\* that has one, lines 94-107 follow.
Emit(p, s) ==
    LET m == MakeMsg(nemit + 1, TextOf(p)) IN
    /\ epc[p] = "idle"
    /\ nemit < MaxEmits
    /\ nemit' = nemit + 1
    /\ overlap' = [overlap EXCEPT ![s] =
                      @ \/ \E o \in Producers \ {p} : epc[o] # "idle" /\ stream_name[o] = s]
    /\ IF sequence_tokens[s] = NoEntry
       THEN /\ EmitAt(p, "create", s, m)
            /\ UNCHANGED <<qitems, unfinished, emitted, kwargs, batches>>
       ELSE Route(p, s, m)
    /\ UNCHANGED <<confVars, dictVars, made, workerVars, flushVars, calls, fsnap,
                   nflush, nfault, nexpire>>

\* an emit that creates the log stream but leaves out line 92
EmitCreateNoEntry(p) ==
    /\ epc[p] = "create"
    /\ epc' = [epc EXCEPT ![p] = "route"]
    /\ UNCHANGED <<confVars, dictVars, queueVars, workerVars, stream_name, emsg,
                   kwargs, flushVars, histVars, countVars>>

\* lines 90-92: create_log_stream succeeded or the stream existed already
EmitCreate(p) ==
    /\ epc[p] = "create"
    /\ sequence_tokens' = [sequence_tokens EXCEPT ![stream_name[p]] = None]
    /\ epc' = [epc EXCEPT ![p] = "route"]
    /\ UNCHANGED <<confVars, queues, queue_keys, queueVars, workerVars, stream_name, emsg,
                   kwargs, flushVars, histVars, countVars>>

\* lines 15-21, 90: create_log_stream raised another ClientError; emit raises
EmitCreateFails(p) ==
    /\ epc[p] = "create"
    /\ nfault + nexpire < MaxUpsets
    /\ nfault' = nfault + 1
    /\ EmitEnds(p)
    /\ UNCHANGED <<confVars, dictVars, queueVars, workerVars, kwargs, flushVars,
                   histVars, nemit, nflush, nexpire>>

\* lines 94-107 after line 92
EmitRoute(p) ==
    /\ epc[p] = "route"
    /\ Route(p, stream_name[p], emsg[p])
    /\ UNCHANGED <<confVars, dictVars, made, workerVars, flushVars, calls, overlap,
                   fsnap, countVars>>

\* line 97: self.queues[stream_name] = Queue()
EmitNewQueue(p) ==
    LET s == stream_name[p] IN
    /\ epc[p] = "newq"
    /\ queue_keys' = IF queues[s] = NoEntry THEN Append(queue_keys, s) ELSE queue_keys
    /\ queues' = [queues EXCEPT ![s] = Ref(<<s, p>>)]
    /\ made' = made \cup {<<s, p>>}
    /\ epc' = [epc EXCEPT ![p] = "start"]
    /\ UNCHANGED <<confVars, sequence_tokens, qitems, unfinished, workerVars, stream_name,
                   emsg, kwargs, flushVars, histVars, countVars>>

\* lines 98-104: the thread is started on self.queues[stream_name] as it is
\* now; lines 111, 116-120: it opens its first batch, empty
EmitStart(p) ==
    LET s == stream_name[p]
        w == <<s, p>>
    IN
    /\ epc[p] = "start"
    /\ wq' = [wq EXCEPT ![w] = queues[s]]
    /\ wpc' = [wpc EXCEPT ![w] = "get"]
    /\ epc' = [epc EXCEPT ![p] = "put"]
    /\ UNCHANGED <<confVars, dictVars, queueVars, msg, cur_batch, cur_batch_size,
                   cur_batch_msg_count, expired, stream_name, emsg, kwargs, flushVars,
                   histVars, countVars>>

\* line 105 after line 104
EmitPut(p) ==
    /\ epc[p] = "put"
    /\ Put(p, stream_name[p], emsg[p])
    /\ UNCHANGED <<confVars, dictVars, made, workerVars, kwargs, flushVars, batches,
                   calls, overlap, fsnap, countVars>>

\* the bound on failures: a first call may fail while the run has upsets left
MayFail(attempt) == attempt = 1 => nfault + nexpire < MaxUpsets
Failures(attempt) == IF attempt = 1 THEN nfault + 1 ELSE nfault

\* lines 68-81 for thread t on stream s, first call (attempt 1) or retry
\* (attempt 2).  after is what follows: "retry" (line 73 comes next),
\* "raised" (the exception leaves _submit_batch) or "returned" (line 81 has
\* stored the token).
PutLogEvents(t, s, attempt, after) ==
    \/ \E response \in Responses(s) :
          /\ Rejected(response) => MayFail(attempt)
          /\ nfault' = IF Rejected(response) THEN Failures(attempt) ELSE nfault
          /\ calls' = [calls EXCEPT ![s] = Append(@,
                          CallRecord(t, s, attempt,
                                     IF Rejected(response) THEN "rejected" ELSE "ok",
                                     response.nextSequenceToken))]
          /\ IF Rejected(response)
             THEN after = "raised" /\ UNCHANGED sequence_tokens
             ELSE /\ after = "returned"
                  /\ sequence_tokens' =
                        [sequence_tokens EXCEPT ![s] = response.nextSequenceToken]
          /\ kwargs' = [kwargs EXCEPT ![t] = None]
    \/ \E error \in ClientErrors :
          /\ MayFail(attempt)
          /\ nfault' = Failures(attempt)
          /\ calls' = [calls EXCEPT ![s] = Append(@,
                          CallRecord(t, s, attempt, error.Code, error.Message))]
          /\ IF attempt = 1 /\ error.Code \in StaleCodes
             THEN /\ after = "retry"
                  /\ kwargs' = [kwargs EXCEPT ![t].sequenceToken = RetryToken(error)]
             ELSE after = "raised" /\ kwargs' = [kwargs EXCEPT ![t] = None]
          /\ UNCHANGED sequence_tokens

\* lines 68-81 run by emit() itself (use_queues false); emit returns or raises
SyncCall(p) ==
    /\ epc[p] \in {"call1", "call2"}
    /\ \E after \in {"retry", "raised", "returned"} :
          /\ PutLogEvents(Caller(p), stream_name[p], IF epc[p] = "call1" THEN 1 ELSE 2, after)
          /\ IF after = "retry"
             THEN /\ epc' = [epc EXCEPT ![p] = "call2"]
                  /\ UNCHANGED <<stream_name, emsg>>
             ELSE EmitEnds(p)
    /\ UNCHANGED <<confVars, queues, queue_keys, queueVars, workerVars, flushVars,
                   emitted, batches, overlap, fsnap, nemit, nflush, nexpire>>

\* ---------------------------------------------------------- batch_sender
StreamOf(w) == w[1]

\* a batch_sender that does not look at the size of the batch
ClosesBatchNoSize(w, m) ==
    \/ m = END
    \/ cur_batch_msg_count[w] >= max_batch_count
    \/ expired[w]

\* a batch_sender that closes on count only once the limit is exceeded
ClosesBatchCountLate(w, m) ==
    \/ m = END
    \/ cur_batch_size[w] + size(m) > max_batch_size
    \/ cur_batch_msg_count[w] > max_batch_count
    \/ expired[w]

\* a batch_sender that closes as soon as the size limit would be reached
ClosesBatchSizeEarly(w, m) ==
    \/ m = END
    \/ cur_batch_size[w] + size(m) >= max_batch_size
    \/ cur_batch_msg_count[w] >= max_batch_count
    \/ expired[w]

\* lines 126-129: the conditions that close the current batch
ClosesBatch(w, m) ==
    \/ m = END
    \/ cur_batch_size[w] + size(m) > max_batch_size
    \/ cur_batch_msg_count[w] >= max_batch_count
    \/ expired[w]

\* Queue.task_done(): one unfinished task less
TaskDone(q) == unfinished' = [unfinished EXCEPT ![q] = @ - 1]

\* the thread ends (the loop is left, or an exception is not caught): its
\* locals are gone
WorkerEnds(w, how) ==
    /\ wpc' = [wpc EXCEPT ![w] = how]
    /\ msg' = [msg EXCEPT ![w] = None]
    /\ cur_batch' = [cur_batch EXCEPT ![w] = <<>>]
    /\ cur_batch_size' = [cur_batch_size EXCEPT ![w] = 0]
    /\ cur_batch_msg_count' = [cur_batch_msg_count EXCEPT ![w] = 0]
    /\ expired' = [expired EXCEPT ![w] = FALSE]

\* lines 123-137: queue.get returns an item m; either the batch is closed and
\* passed to _submit_batch (lines 60-65), or m is appended and acknowledged
WorkerGet(w) ==
    LET q == wq[w].queue
        m == Head(qitems[q])
    IN
    /\ wpc[w] = "get"
    /\ qitems[q] # <<>>
    /\ qitems' = [qitems EXCEPT ![q] = Tail(@)]
    /\ IF ClosesBatch(w, m)
       THEN /\ \E next \in {"call1", "crashed"} :
                  /\ EnterSubmit(w, StreamOf(w), cur_batch[w], next)
                  /\ IF next = "crashed"
                     THEN WorkerEnds(w, "crashed")
                     ELSE /\ wpc' = [wpc EXCEPT ![w] = next]
                          /\ msg' = [msg EXCEPT ![w] = m]
                          /\ UNCHANGED <<cur_batch, cur_batch_size, cur_batch_msg_count,
                                         expired>>
            /\ UNCHANGED unfinished
       ELSE /\ msg' = [msg EXCEPT ![w] = m]
            /\ cur_batch_size' = [cur_batch_size EXCEPT ![w] = @ + size(m)]
            /\ cur_batch_msg_count' = [cur_batch_msg_count EXCEPT ![w] = @ + 1]
            /\ cur_batch' = [cur_batch EXCEPT ![w] = Append(@, m)]
            /\ TaskDone(q)
            /\ UNCHANGED <<wpc, kwargs, batches, expired>>
    /\ UNCHANGED <<confVars, dictVars, made, wq, emitVars, flushVars,
                   emitted, calls, overlap, fsnap, countVars>>

\* lines 123-125: queue.get times out and raises Empty.  In batch_sender the
\* name queue is the Queue object (the parameter), which has no attribute
\* Empty: evaluating "except queue.Empty" raises AttributeError and the
\* thread ends, with cur_batch unsent.
WorkerTimeout(w) ==
    /\ wpc[w] = "get"
    /\ qitems[wq[w].queue] = <<>>
    /\ expired[w]
    /\ WorkerEnds(w, "crashed")
    /\ UNCHANGED <<confVars, dictVars, queueVars, wq, emitVars, kwargs, flushVars,
                   histVars, countVars>>

\* time.time() reaches cur_batch_deadline while the worker is in queue.get
Expire(w) ==
    /\ wpc[w] = "get"
    /\ ~expired[w]
    /\ nfault + nexpire < MaxUpsets
    /\ nexpire' = nexpire + 1
    /\ expired' = [expired EXCEPT ![w] = TRUE]
    /\ UNCHANGED <<confVars, dictVars, queueVars, wpc, wq, msg, cur_batch, cur_batch_size,
                   cur_batch_msg_count, emitVars, kwargs, flushVars, histVars,
                   nemit, nflush, nfault>>

\* a batch_sender that opens every batch empty
OpenBatchEmpty(w) ==
    IF msg[w] = END
    THEN WorkerEnds(w, "stopped")
    ELSE /\ wpc' = [wpc EXCEPT ![w] = "get"]
         /\ UNCHANGED msg
         /\ cur_batch' = [cur_batch EXCEPT ![w] = <<>>]
         /\ cur_batch_size' = [cur_batch_size EXCEPT ![w] = 0]
         /\ cur_batch_msg_count' = [cur_batch_msg_count EXCEPT ![w] = 0]
         /\ expired' = [expired EXCEPT ![w] = FALSE]

\* lines 116-120: the loop test, and the next batch opened with the message
\* that closed the last one
OpenBatch(w) ==
    IF msg[w] = END
    THEN WorkerEnds(w, "stopped")
    ELSE /\ wpc' = [wpc EXCEPT ![w] = "get"]
         /\ UNCHANGED msg
         /\ cur_batch' = [cur_batch EXCEPT ![w] = <<msg[w]>>]
         /\ cur_batch_size' = [cur_batch_size EXCEPT ![w] = SumSizes(<<msg[w]>>)]
         /\ cur_batch_msg_count' = [cur_batch_msg_count EXCEPT ![w] = Len(<<msg[w]>>)]
         /\ expired' = [expired EXCEPT ![w] = FALSE]

\* lines 68-81 run by a worker, then lines 131-132 and 116-120 when
\* _submit_batch returns; an exception ends the thread
WorkerCall(w) ==
    /\ wpc[w] \in {"call1", "call2"}
    /\ \E after \in {"retry", "raised", "returned"} :
          /\ PutLogEvents(w, StreamOf(w), IF wpc[w] = "call1" THEN 1 ELSE 2, after)
          /\ CASE after = "retry" ->
                    /\ wpc' = [wpc EXCEPT ![w] = "call2"]
                    /\ UNCHANGED <<unfinished, msg, cur_batch, cur_batch_size,
                                   cur_batch_msg_count, expired>>
               [] after = "raised" ->
                    /\ WorkerEnds(w, "failed")
                    /\ UNCHANGED unfinished
               [] after = "returned" ->
                    /\ TaskDone(wq[w].queue)
                    /\ OpenBatch(w)
    /\ UNCHANGED <<confVars, queues, queue_keys, qitems, made, wq, emitVars,
                   flushVars, emitted, batches, overlap, fsnap, nemit, nflush, nexpire>>

\* ------------------------------------------------------------------ flush
\* line 142: flush() is called; the first loop's iterator over
\* self.queues.values() is created
FlushCall ==
    /\ fpc \in {"idle", "returned", "raised"}
    /\ nflush < MaxFlush
    /\ nflush' = nflush + 1
    /\ fsnap' = emitted
    /\ fpc' = "put"
    /\ fidx' = 0
    /\ fused' = Len(queue_keys)
    /\ UNCHANGED <<confVars, dictVars, queueVars, workerVars, emitVars, kwargs, fq,
                   emitted, batches, calls, overlap, nemit, nfault, nexpire>>

\* flush() returns or raises: the call's locals are gone
FlushEnds(how) ==
    /\ fpc' = how
    /\ fidx' = 0
    /\ fused' = 0
    /\ fq' = NoEntry

\* lines 142-145: one step of the first loop.  A dict that grew since the
\* iterator was created raises RuntimeError; at the end of the dict the second
\* loop's iterator is created; otherwise END is put on the next queue.
FlushPut ==
    /\ fpc = "put"
    /\ IF Len(queue_keys) # fused
       THEN FlushEnds("raised") /\ UNCHANGED <<qitems, unfinished>>
       ELSE IF fidx >= Len(queue_keys)
       THEN /\ fpc' = "next"
            /\ fidx' = 0
            /\ fused' = Len(queue_keys)
            /\ UNCHANGED <<qitems, unfinished, fq>>
       ELSE LET q == queues[queue_keys[fidx + 1]].queue IN
            /\ qitems' = [qitems EXCEPT ![q] = Append(@, END)]
            /\ unfinished' = [unfinished EXCEPT ![q] = @ + 1]
            /\ fidx' = fidx + 1
            /\ UNCHANGED <<fpc, fused, fq>>
    /\ UNCHANGED <<confVars, dictVars, made, workerVars, emitVars, kwargs, histVars,
                   countVars>>

\* lines 145-147: one step of the second loop: RuntimeError, or the end of the
\* dict and flush returns, or the next queue to join
FlushNext ==
    /\ fpc = "next"
    /\ IF Len(queue_keys) # fused
       THEN FlushEnds("raised")
       ELSE IF fidx >= Len(queue_keys)
       THEN FlushEnds("returned")
       ELSE /\ fq' = queues[queue_keys[fidx + 1]]
            /\ fidx' = fidx + 1
            /\ fpc' = "join"
            /\ UNCHANGED fused
    /\ UNCHANGED <<confVars, dictVars, queueVars, workerVars, emitVars, kwargs,
                   histVars, countVars>>

\* line 146: queue.join() returns once the queue has no unfinished task
FlushJoin ==
    /\ fpc = "join"
    /\ unfinished[fq.queue] = 0
    /\ fpc' = "next"
    /\ fq' = NoEntry
    /\ UNCHANGED <<confVars, dictVars, queueVars, workerVars, emitVars, kwargs, fidx,
                   fused, histVars, countVars>>

\* ------------------------------------------------------------ specification
ProducerStep(p) ==
    \/ \E s \in LoggersOf(p) : Emit(p, s)
    \/ EmitCreate(p)
    \/ EmitCreateFails(p)
    \/ EmitRoute(p)
    \/ EmitNewQueue(p)
    \/ EmitStart(p)
    \/ EmitPut(p)
    \/ SyncCall(p)

WorkerStep(w) ==
    \/ WorkerGet(w)
    \/ WorkerTimeout(w)
    \/ WorkerCall(w)

FlushStep ==
    \/ FlushCall
    \/ FlushPut
    \/ FlushNext
    \/ FlushJoin

Next ==
    \/ \E p \in Producers : ProducerStep(p)
    \/ \E w \in Workers : WorkerStep(w)
    \/ \E w \in Workers : Expire(w)
    \/ FlushStep

Spec == Init /\ [][Next]_vars

\* ------------------------------------------------------- reading the history
RECURSIVE Concat(_)

\* the batches passed to _submit_batch for stream s, in the order of the calls
Submitted(s) == [k \in DOMAIN batches[s] |-> batches[s][k].logEvents]

\* the batches passed to _submit_batch for stream s by batch_sender threads
WorkerBatches(s) ==
    {batches[s][k].logEvents : k \in {j \in DOMAIN batches[s] : batches[s][j].thread \in Workers}}

Concat(seqs) == IF seqs = <<>> THEN <<>> ELSE Head(seqs) \o Concat(Tail(seqs))

IsPrefix(a, b) == Len(a) <= Len(b) /\ SubSeq(b, 1, Len(a)) = a

InSomeBatch(m, s) ==
    \E k \in DOMAIN batches[s] :
        \E j \in DOMAIN batches[s][k].logEvents : batches[s][k].logEvents[j] = m

Ended == {"stopped", "failed", "crashed"}

\* a worker of stream s has ended on an exception of _submit_batch
ReportedFailure(s) == \E w \in Workers : StreamOf(w) = s /\ wpc[w] = "failed"

AllIdle == \A p \in Producers : epc[p] = "idle"

\* join() on queue q can never return: the queue has unfinished tasks, every
\* thread started on it has ended and no emit() is on its way to start one
BlockedForever(q) ==
    /\ unfinished[q] > 0
    /\ \A w \in Workers : wq[w] = Ref(q) => wpc[w] \in Ended
    /\ AllIdle

\* ------------------------------------------------------------------ claims

\* C1: whenever a flush() call has returned, every message that was put on a
\* queue of any stream before that flush() was called is in a batch passed to
\* the remote store, or a worker of that stream has reported a fatal delivery
\* failure.
C1_DrainComplete ==
    fpc = "returned" =>
        \A s \in Streams :
            \A i \in DOMAIN fsnap[s] : InSomeBatch(fsnap[s][i], s) \/ ReportedFailure(s)

\* C2: for every stream, at every moment, the batches submitted so far,
\* concatenated in submission order, are a prefix of the messages emitted to
\* the stream: none submitted twice, skipped or reordered.
C2_OrderPreserved ==
    \A s \in Streams : IsPrefix(Concat(Submitted(s)), emitted[s])

\* C3: every batch a stream worker passes to _submit_batch has a summed size
\* cost of at most max_batch_size, or is a single message whose own size cost
\* exceeds max_batch_size.
C3_SizeBound ==
    \A s \in Streams : \A b \in WorkerBatches(s) :
        \/ SumSizes(b) <= max_batch_size
        \/ Len(b) = 1 /\ size(b[1]) > max_batch_size

\* the size limit closed a batch, and the oversized message carried over from
\* it was passed on alone by the same worker
C3_Witness ==
    \E s \in Streams : \E k \in DOMAIN batches[s] :
        /\ k >= 2
        /\ batches[s][k].thread \in Workers
        /\ batches[s][k - 1].thread = batches[s][k].thread
        /\ Len(batches[s][k].logEvents) = 1
        /\ size(batches[s][k].logEvents[1]) > max_batch_size
        /\ Len(batches[s][k - 1].logEvents) >= 1
        /\ SumSizes(batches[s][k - 1].logEvents) <= max_batch_size

\* C4: with max_batch_count >= 1, every batch a stream worker passes to
\* _submit_batch holds at most max_batch_count messages, also a batch that
\* starts with the message carried over from the batch closed before it.
C4_CountBound ==
    max_batch_count >= 1 =>
        \A s \in Streams : \A b \in WorkerBatches(s) : Len(b) <= max_batch_count

\* the count closed a batch, and the batch opened with the carried message
\* was passed on as well
C4_Witness ==
    /\ max_batch_count = 1
    /\ \E s \in Streams :
          /\ Len(batches[s]) >= 2
          /\ batches[s][1].thread \in Workers
          /\ batches[s][2].thread = batches[s][1].thread
          /\ Len(batches[s][1].logEvents) = 1
          /\ Len(batches[s][2].logEvents) = 1

\* C5: on every stream the first put_log_events call carries no sequence
\* token, and the first call of a submission that follows a successful one
\* carries the nextSequenceToken that one returned.
C5_TokenContinuity ==
    \A s \in Streams : \A i \in DOMAIN calls[s] :
        calls[s][i].attempt = 1 =>
            /\ i = 1 => calls[s][i].sequenceToken = Unset
            /\ (i > 1 /\ calls[s][i - 1].result = "ok") =>
                   calls[s][i].sequenceToken = calls[s][i - 1].detail

\* C6: one _submit_batch invocation makes at most two put_log_events calls; a
\* second call is made exactly after a first one failed with
\* DataAlreadyAccepted or InvalidSequenceToken, for the same batch and with
\* the text after the last space of the error message as its token; when the
\* second call fails, the exception leaves _submit_batch (the worker ends).
C6_StaleRetry ==
    \A s \in Streams : \A i \in DOMAIN calls[s] :
        LET c == calls[s][i]
            t == batches[s][c.inv].thread
            same == {j \in DOMAIN calls[s] : calls[s][j].inv = c.inv}
            retrying == IF t \in Workers THEN wpc[t] = "call2"
                        ELSE epc[t[2]] = "call2" /\ stream_name[t[2]] = s
        IN  /\ Cardinality(same) <= 2
            /\ c.attempt = 2 =>
                  \E j \in same :
                      /\ j < i
                      /\ calls[s][j].attempt = 1
                      /\ calls[s][j].result \in StaleCodes
                      /\ c.sequenceToken = Str(RSplitLast(calls[s][j].detail))
            /\ (c.attempt = 1 /\ c.result \in StaleCodes) =>
                  \/ \E j \in same : j > i /\ calls[s][j].attempt = 2
                  \/ (retrying /\ kwargs[t].logEvents = batches[s][c.inv].logEvents
                               /\ kwargs[t].sequenceToken = Str(RSplitLast(c.detail)))
            /\ (c.attempt = 1 /\ c.result \notin StaleCodes) => same = {i}
            /\ (c.attempt = 2 /\ c.result # "ok" /\ t \in Workers) => wpc[t] = "failed"

\* a retry was made with the token "49" cut from "not 7 but 49", and it failed
C6_Witness ==
    \E s \in Streams : \E i \in DOMAIN calls[s] :
        /\ calls[s][i].attempt = 2
        /\ calls[s][i].sequenceToken = Str(<<"4", "9">>)
        /\ calls[s][i].result # "ok"
        /\ batches[s][calls[s][i].inv].thread \in Workers

\* C7: with no failed remote call and no emit() during the call, flush()
\* returns, also when flush() was called before on the handler.  flush() blocks
\* only in queue.join(): stated as "flush() never waits on a queue whose join()
\* can never return", for runs with no elapsed deadline and no concurrent emits.
C7_FlushReturns ==
    (/\ fpc = "join"
     /\ nfault = 0
     /\ nexpire = 0
     /\ emitted = fsnap
     /\ \A s \in Streams : ~overlap[s])
        => ~BlockedForever(fq.queue)

\* C8: when a worker's submission fails fatally while flush() waits on its
\* stream, flush() does not block forever: it ends, and with the failure.
\* flush() blocks only in queue.join(): stated as "flush() never waits on the
\* queue of a failed worker when that join() can never return".
C8_FlushSurfacesFailure ==
    (/\ fpc = "join"
     /\ \E w \in Workers : wq[w] = fq /\ wpc[w] = "failed"
     /\ \A s \in Streams : ~overlap[s])
        => ~BlockedForever(fq.queue)

\* C9: k >= 1 messages emitted one after the other to one stream, with a
\* summed size cost of at most max_batch_size and k <= max_batch_count, and
\* then a flush() that returns before any deadline has elapsed: exactly one
\* batch was submitted for the stream, holding the k messages in emitted order.
C9_SingleBatch ==
    \A s \in Streams :
        (/\ use_queues
         /\ fpc = "returned"
         /\ nexpire = 0
         /\ ~overlap[s]
         /\ fsnap[s] = emitted[s]
         /\ Len(emitted[s]) >= 1
         /\ SumSizes(emitted[s]) <= max_batch_size
         /\ Len(emitted[s]) <= max_batch_count)
            => Submitted(s) = <<emitted[s]>>

\* flush() has returned after two messages for one stream that fill a batch
C9_Witness ==
    \E s \in Streams :
        /\ use_queues
        /\ fpc = "returned"
        /\ nexpire = 0
        /\ ~overlap[s]
        /\ fsnap[s] = emitted[s]
        /\ Len(emitted[s]) = 2
        /\ SumSizes(emitted[s]) <= max_batch_size
        /\ Len(emitted[s]) <= max_batch_count
        /\ Submitted(s) = <<emitted[s]>>

\* C10: for every stream at most one queue is ever registered and at most one
\* batch_sender thread is ever started, and the thread reads the queue that
\* emit() puts the stream's messages on.
C10_OneWorkerOneQueue ==
    \A s \in Streams :
        /\ Cardinality({q \in made : q[1] = s}) <= 1
        /\ Cardinality({w \in Workers : StreamOf(w) = s /\ wpc[w] # "unstarted"}) <= 1
        /\ \A w \in Workers :
              (StreamOf(w) = s /\ wpc[w] # "unstarted") => wq[w] = queues[s]

\* the threads inside _submit_batch for stream s: between building the
\* request (lines 62-65) and storing the token or leaving on an exception
InFlight(s) == {t \in Threads : kwargs[t] # None /\ kwargs[t].logStreamName = s}

\* C11: in every reachable state, for every stream, at most one thread is
\* inside _submit_batch for that stream, with use_queues true and false.
C11_OneInFlight ==
    \A s \in Streams : Cardinality(InFlight(s)) <= 1

\* some batch_sender thread that reads the registered queue of stream s is
\* running
Served(s) == \E w \in Workers : wq[w] = queues[s] /\ wpc[w] \notin Ended

\* C12: a record put on a stream's queue after a flush() that covered the
\* stream has returned is served: when emit() has put it, a worker is running
\* on that queue (in runs with no failed call, no elapsed deadline and no
\* overlapping emits for the stream).
C12_EmitAfterFlushServed ==
    [][\A s \in Streams :
          (/\ use_queues
           /\ fpc = "returned"
           /\ fsnap[s] # <<>>
           /\ nfault = 0 /\ nexpire = 0 /\ ~overlap'[s]
           /\ emitted'[s] # emitted[s])
              => Served(s)']_vars

\* m is an element of the sequence
In(m, seq) == \E i \in DOMAIN seq : seq[i] = m

\* message m does not fit the batch: too large for what is left, or the batch
\* holds max_batch_count messages already
Overflows(batch, m) ==
    \/ SumSizes(batch) + size(m) > max_batch_size
    \/ Len(batch) >= max_batch_count

\* in this step worker w takes the head of its queue
Dequeues(w) ==
    /\ wpc[w] = "get"
    /\ qitems[wq[w].queue] # <<>>
    /\ qitems'[wq[w].queue] = Tail(qitems[wq[w].queue])
    /\ msg'[w] = Head(qitems[wq[w].queue])

Oversized(m) == size(m) > max_batch_size

\* message m of stream s is on a queue of the stream or in the hands of one
\* of its workers
Pending(m, s) ==
    \/ \E q \in made : q[1] = s /\ In(m, qitems[q])
    \/ \E w \in Workers : StreamOf(w) = s /\ (msg[w] = m \/ In(m, cur_batch[w]))

\* C14: a message whose own size cost exceeds max_batch_size is never in a
\* batch with another message, neither in a batch passed to _submit_batch nor
\* in a worker's current batch, and it is never dropped: once emitted it is
\* waiting, or it has been passed to _submit_batch, or a submission of the
\* stream has failed fatally.
C14_OversizedAlone ==
    \A s \in Streams :
        /\ \A b \in WorkerBatches(s) : \A i \in DOMAIN b :
              Oversized(b[i]) => Len(b) = 1
        /\ \A w \in Workers : \A i \in DOMAIN cur_batch[w] :
              Oversized(cur_batch[w][i]) => Len(cur_batch[w]) = 1
        /\ \A i \in DOMAIN emitted[s] :
              Oversized(emitted[s][i]) =>
                  \/ Pending(emitted[s][i], s)
                  \/ InSomeBatch(emitted[s][i], s)
                  \/ ReportedFailure(s)

\* C15: a stream worker never passes an empty batch to _submit_batch.
C15_NoEmptySubmission ==
    \A s \in Streams : \A b \in WorkerBatches(s) : b # <<>>

\* in this step worker w's queue.get times out: the deadline has passed and
\* the queue is empty
TimesOut(w) ==
    /\ wpc[w] = "get"
    /\ expired[w]
    /\ qitems[wq[w].queue] = <<>>
    /\ wpc'[w] # "get" \/ expired'[w] # expired[w] \/ cur_batch'[w] # cur_batch[w]

\* C16: when a worker's queue wait times out the worker keeps running; a
\* non-empty current batch is passed to _submit_batch, an empty one is only
\* reopened.
C16_TimeoutKeepsRunning ==
    [][\A w \in Workers :
          TimesOut(w) =>
              /\ wpc'[w] \notin Ended
              /\ IF cur_batch[w] # <<>>
                 THEN /\ wpc'[w] = "call1"
                      /\ batches'[StreamOf(w)] =
                            Append(batches[StreamOf(w)],
                                   [logEvents |-> cur_batch[w], thread |-> w])
                 ELSE wpc'[w] = "get" /\ batches' = batches]_vars

\* C17: for every stream the token entry and the queue are registered before
\* a worker of the stream is started and before a message is put on a queue
\* of the stream, and the token entry exists whenever _submit_batch has been
\* entered for the stream, by a worker or by emit() itself.
C17_RegisteredBefore ==
    /\ \A w \in Workers :
          wpc[w] # "unstarted" =>
              /\ sequence_tokens[StreamOf(w)] # NoEntry
              /\ queues[StreamOf(w)] # NoEntry
              /\ wq[w] # NoEntry
              /\ wq[w].queue \in made
    /\ \A q \in QueueIds :
          (qitems[q] # <<>> \/ unfinished[q] > 0) =>
              /\ q \in made
              /\ queues[q[1]] # NoEntry
              /\ sequence_tokens[q[1]] # NoEntry
    /\ \A s \in Streams :
          batches[s] # <<>> => sequence_tokens[s] # NoEntry

\* two threads have registered the same stream at the same time, and a worker
\* of the stream has entered _submit_batch
C17_Witness ==
    \E s \in Streams :
        /\ overlap[s]
        /\ Cardinality({q \in made : q[1] = s}) = 2
        /\ WorkerBatches(s) # {}

\* a put_log_events call that ended in a fatal error: rejected events, an
\* error other than a stale token, or any failure of the retry
Fatal(c) ==
    /\ c.result # "ok"
    /\ c.attempt = 2 \/ c.result \notin StaleCodes

\* C18: after a fatal error of a submission on stream S the worker of S has
\* ended and no further put_log_events call is made for S, and the step that
\* fails changes nothing of the workers and queues of the other streams.
C18_FailureIsolation ==
    [][\A s \in Streams :
          use_queues =>
              /\ (\E i \in DOMAIN calls[s] : Fatal(calls[s][i]))
                     => calls'[s] = calls[s]
              /\ (calls'[s] # calls[s] /\ Fatal(calls'[s][Len(calls'[s])]))
                     => /\ batches'[s][calls'[s][Len(calls'[s])].inv].thread \in Workers
                        /\ wpc'[batches'[s][calls'[s][Len(calls'[s])].inv].thread] = "failed"
                        /\ \A w \in Workers :
                              StreamOf(w) # s =>
                                  /\ wpc'[w] = wpc[w]
                                  /\ cur_batch'[w] = cur_batch[w]
                                  /\ msg'[w] = msg[w]
                        /\ \A q \in QueueIds :
                              q[1] # s => /\ qitems'[q] = qitems[q]
                                          /\ unfinished'[q] = unfinished[q]
                        /\ \A o \in Streams :
                              o # s => sequence_tokens'[o] = sequence_tokens[o]]_vars

\* C19: once a stream is registered its stored token changes only in a step
\* that ends a successful _submit_batch for that stream, and then to the
\* nextSequenceToken that call returned; no other step, of any thread,
\* changes it or resets it to None.
C19_TokenFrame ==
    [][\A s \in Streams :
          (sequence_tokens[s] # NoEntry /\ sequence_tokens'[s] # sequence_tokens[s])
              => /\ calls'[s] # calls[s]
                 /\ calls'[s][Len(calls'[s])].result = "ok"
                 /\ sequence_tokens'[s] = calls'[s][Len(calls'[s])].detail]_vars

\* C20: with every submission successful, a flush() during which other
\* threads emit to streams that were registered and emitted to before the call
\* returns: the first flush() of a run never waits on a queue whose join() can
\* never return (in runs with no elapsed deadline and no overlapping emits on
\* one stream).
C20_FlushUnderEmits ==
    (/\ fpc = "join"
     /\ nflush = 1
     /\ nfault = 0
     /\ nexpire = 0
     /\ fsnap[fq.queue[1]] # <<>>
     /\ \A s \in Streams : ~overlap[s])
        => ~BlockedForever(fq.queue)

====
